---- MODULE Spec2Model ----
(***************************************************************************)
(* Model of the two adapter tools of src/.agents/tools/permissions.js:     *)
(*   - the permission tool (JavaScript, lines 1-260), which wraps the      *)
(*     `amp permissions` command line, and                                 *)
(*   - the multiplexer tool (zsh, lines 263-405), which wraps tmux on the  *)
(*     isolated server `-L amp`.                                           *)
(* One behaviour is one invocation of one tool (the variable `tool`).      *)
(*                                                                         *)
(* Text is modelled as a sequence of tokens, so that concatenation,        *)
(* joining, quoting and prefix replacement are computed as the code        *)
(* computes them.  The tokens "'", " ", "\\", "~", ":" and "\n" stand for  *)
(* the characters of that name; any other token is a run of ordinary       *)
(* characters.                                                             *)
(***************************************************************************)
EXTENDS Integers, Sequences, FiniteSets, TLC

(***************************************************************************)
(* Bounds of the model.                                                    *)
(***************************************************************************)
MaxArgs == 2
MaxChunks == 2

(***************************************************************************)
(* Text helpers.                                                           *)
(***************************************************************************)
\* the text of a template literal: the concatenation of its parts
RECURSIVE Concat(_)
Concat(parts) ==
    IF parts = << >> THEN << >> ELSE Head(parts) \o Concat(Tail(parts))

\* all sequences over S of length at most n
SeqsUpTo(S, n) == UNION {[1..k -> S] : k \in 0..n}

\* Array.prototype.join(sep)
RECURSIVE join(_, _)
join(arr, sep) ==
    IF arr = << >> THEN << >>
    ELSE IF Len(arr) = 1 THEN arr[1]
    ELSE arr[1] \o sep \o join(Tail(arr), sep)

(***************************************************************************)
(* The permission tool: constants of the source.                           *)
(***************************************************************************)
PERMISSION_INSTRUCTIONS == <<"YAAAYYYY Permission Rules Reference: ...">>

PermissionActions == {"explain", "test", "add", "edit"}

\* process.env.HOME
HOME == <<"/home/u">>


(***************************************************************************)
(* State.                                                                  *)
(***************************************************************************)
VARIABLES
    tool,          \* which adapter this invocation runs: "permissions" or "tmux"
    mode,          \* process.env.TOOLBOX_ACTION / $TOOLBOX_ACTION
    req,           \* the document on standard input
    permPc,        \* permission tool: position of the process
    printed,       \* permission tool: console.log / console.error calls so far
    exitStatus,    \* permission tool: -1 while running, else the exit status
    spawns,        \* permission tool: the spawn() calls made so far
    childState,    \* the amp child: none, running, closed (it started), or
                   \* failed, errored, failed_closed (it could not be started)
    stdinWritten,  \* what was written to child.stdin, one entry per write()
    stdinEnded,    \* whether child.stdin.end() was called
    stdoutBuf,     \* `stdout` of runAmpCommand*: the data chunks so far
    stderrBuf,     \* `stderr` of runAmpCommand*
    nChunks,       \* number of data events delivered (bounded by MaxChunks)
    arrived,       \* the data events delivered, in order: stream and chunk
    promise,       \* the promise runAmpCommand* returned
    cwd,           \* $PWD of the multiplexer tool
    sessions,      \* the sessions of the isolated server
    winCount,      \* per session name, its number of windows (0: no session)
    sh             \* the shell processes of the multiplexer tool

permVars == <<permPc, printed, exitStatus, spawns, childState, stdinWritten,
              stdinEnded, stdoutBuf, stderrBuf, nChunks, arrived, promise>>

tmuxVars == <<cwd, sessions, winCount, sh>>

vars == <<tool, mode, req, permVars, tmuxVars>>

(***************************************************************************)
(* Requests.  A request is the document on standard input: malformed       *)
(* (json = "bad") or an object whose fields may be missing.  A missing     *)
(* settingsFile or target is the empty text.                               *)
(***************************************************************************)
Request(json, hasAction, action, hasArgs, args, settingsFile, target) ==
    [json |-> json, hasAction |-> hasAction, action |-> action,
     hasArgs |-> hasArgs, args |-> args,
     settingsFile |-> settingsFile, target |-> target]

MalformedRequest == Request("bad", FALSE, "", FALSE, << >>, << >>, << >>)

\* rule texts and settings files the permission requests are drawn from
PermArgTexts == {<<"allow Bash --cmd 'ls*'">>, <<"reject Bash --cmd '*rm -rf*'">>}
SettingsFiles == {<< >>, <<"~", "/settings.json">>, <<"/etc/amp.json">>}
PermActionInputs == PermissionActions \cup {"bogus"}

PermRequests ==
    {MalformedRequest}
    \cup {Request("ok", TRUE, a, TRUE, as, sf, << >>) :
            a \in PermActionInputs, as \in SeqsUpTo(PermArgTexts, MaxArgs),
            sf \in SettingsFiles}
    \cup {Request("ok", TRUE, a, FALSE, << >>, sf, << >>) :
            a \in PermActionInputs, sf \in SettingsFiles}
    \cup {Request("ok", FALSE, "", hasArgs, << >>, << >>, << >>) :
            hasArgs \in BOOLEAN}

Modes == {"describe", "execute", "unset", "other"}

(***************************************************************************)
(* Output lines.                                                           *)
(***************************************************************************)
Line(fd, kind, text) == [fd |-> fd, kind |-> kind, text |-> text]

Log(kind, text) == Line("out", kind, text)
LogError(kind, text) == Line("err", kind, text)

NoPromise ==
    [state |-> "none", stdout |-> << >>, stderr |-> << >>, exitCode |-> 0,
     reason |-> << >>]
PendingPromise == [NoPromise EXCEPT !.state = "pending"]

\* exit codes a started child may close with, and why a spawn may fail
ExitCodes == {0, 1, 2}
SpawnErrors == {<<"spawn amp ENOENT">>, <<"spawn amp EACCES">>}
Chunks == {<<"o1">>, <<"o2">>}

(***************************************************************************)
(* The permission tool: building the child's argument vector.              *)
(***************************************************************************)
\* a variant that passes the path on as it was given
expandHome_none(settingsFile) == settingsFile

\* settingsFile.replace(/^~/, process.env.HOME)
expandHome(settingsFile) ==
    IF settingsFile # << >> /\ Head(settingsFile) = "~"
    THEN HOME \o Tail(settingsFile)
    ELSE settingsFile

\* ampArgs of runAmpCommand and of runAmpCommandWithStdin
ampArgs(settingsFile, subcommand, args) ==
    (IF settingsFile # << >>
     THEN << <<"--settings-file">>, expandHome(settingsFile) >>
     ELSE << >>)
    \o << <<"permissions">>, subcommand >> \o args

\* spawn('amp', ampArgs, {stdio: [stdin, 'pipe', 'pipe']})
SpawnCall(file, argv, stdin) == [file |-> file, argv |-> argv, stdin |-> stdin]

\* runAmpCommand(settingsFile, subcommand, args): the spawn call it makes
runAmpCommand(settingsFile, subcommand, args) ==
    SpawnCall("amp", ampArgs(settingsFile, subcommand, args), "ignore")

\* runAmpCommandWithStdin(settingsFile, subcommand, stdinContent): the spawn
\* call it makes; `args` keeps its default, the empty list
runAmpCommandWithStdin(settingsFile, subcommand) ==
    SpawnCall("amp", ampArgs(settingsFile, subcommand, << >>), "pipe")

(***************************************************************************)
(* The permission tool: executePermissionsTool up to its first await.      *)
(***************************************************************************)
\* const { settingsFile, action, args = [] } = input
inputArgs(input) == IF input.hasArgs THEN input.args ELSE << >>
inputAction(input) == IF input.hasAction THEN input.action ELSE "undefined"

\* a variant in which the edit case lacks the check
requiresArgs_edit_unchecked(action) == action \in {"test", "add"}

\* the actions whose case starts with `if (args.length === 0) throw`
requiresArgs(action) == action \in {"test", "add", "edit"}

\* the message of the Error each case throws on an empty args
missingArgsMessage(action) ==
    CASE action = "test" ->
           <<"test action requires at least one argument (tool name)">>
      [] action = "add" ->
           <<"add action requires at least one argument (permission rule)">>
      [] action = "edit" ->
           <<"edit action requires at least one argument (permission rule)">>

\* the message of the Error the default case throws
unknownActionMessage(action) ==
    <<"Unknown action: ", action, ". Valid actions are: explain, test, add, edit">>

\* a variant that ends the block with a newline
rulesContent_trailing_newline(args) == join(args, <<"\n">>) \o <<"\n">>

\* const rulesContent = args.join('\n')
rulesContent(args) == join(args, <<"\n">>)

\* `Replacing all permissions with ${args.length} rule(s)...`
replacingNotice(args) ==
    Log("notice",
        <<"Replacing all permissions with ", ToString(Len(args)), " rule(s)...">>)

\* the subcommand each action runs
subcommandOf(action) ==
    CASE action = "explain" -> <<"list">>
      [] action = "test" -> <<"test">>
      [] action = "add" -> <<"add">>
      [] action = "edit" -> <<"edit">>

\* catch (error) { console.error(`Error: ${error.message}`); process.exit(1) }
errorLine(message) == LogError("error", <<"Error: ">> \o message)

catchError(out, message) ==
    /\ printed' = Append(out, errorLine(message))
    /\ exitStatus' = 1
    /\ permPc' = "exited"

\* the promise executor of runAmpCommand*: spawn, register the handlers, and
\* (with a stdin pipe) write the content and end the stream.  Whether the
\* binary starts is the environment's choice; a child that did not start may
\* or may not have a stdin stream.
startChild(call, stdinContent) ==
    /\ spawns' = Append(spawns, call)
    /\ promise' = PendingPromise
    /\ stdoutBuf' = << >>
    /\ stderrBuf' = << >>
    /\ permPc' = "awaiting"
    /\ exitStatus' = exitStatus
    /\ \E started \in BOOLEAN :
         /\ childState' = IF started THEN "running" ELSE "failed"
         /\ \E hasStdin \in {call.stdin = "pipe" /\ started, call.stdin = "pipe"} :
              /\ stdinWritten' = IF hasStdin THEN <<stdinContent>> ELSE << >>
              /\ stdinEnded' = hasStdin

executePermissionsTool(input) ==
    LET settingsFile == input.settingsFile
        action == inputAction(input)
        args == inputArgs(input)
    IN IF action \notin PermissionActions
       THEN /\ catchError(printed, unknownActionMessage(action))
            /\ UNCHANGED <<spawns, childState, stdinWritten, stdinEnded,
                           stdoutBuf, stderrBuf, promise>>
       ELSE IF requiresArgs(action) /\ Len(args) = 0
       THEN /\ catchError(printed, missingArgsMessage(action))
            /\ UNCHANGED <<spawns, childState, stdinWritten, stdinEnded,
                           stdoutBuf, stderrBuf, promise>>
       ELSE IF action = "edit"
       THEN /\ printed' = Append(printed, replacingNotice(args))
            /\ startChild(runAmpCommandWithStdin(settingsFile, subcommandOf(action)),
                          rulesContent(args))
       ELSE /\ printed' = printed
            /\ startChild(runAmpCommand(settingsFile, subcommandOf(action),
                                        IF action = "explain" THEN << >> ELSE args),
                          << >>)

(***************************************************************************)
(* The permission tool: the child's events.  A child that started emits    *)
(* data events and then close; a child that could not be started emits     *)
(* error and then close (child_process: 'close' is emitted after 'exit',   *)
(* or after 'error' if the child failed to spawn).  A promise settles on   *)
(* the first resolve or reject; later calls change nothing.                *)
(***************************************************************************)
resolve(p, value) ==
    IF p.state = "pending"
    THEN [p EXCEPT !.state = "resolved", !.stdout = value.stdout,
                   !.stderr = value.stderr, !.exitCode = value.exitCode]
    ELSE p

reject(p, message) ==
    IF p.state = "pending"
    THEN [p EXCEPT !.state = "rejected", !.reason = message]
    ELSE p

\* a variant whose error handler settles the promise with an empty result
onError_resolves(p, errorMessage) ==
    [p EXCEPT !.state = "resolved", !.exitCode = -1]

\* child.on('error', (error) => reject(new Error(`Failed ...: ${error.message}`)))
onError(p, errorMessage) ==
    reject(p, <<"Failed to execute amp command: ">> \o errorMessage)

\* child.on('close', (code) => resolve({ stdout, stderr, exitCode: code }))
onClose(p, out, err, code) ==
    resolve(p, [stdout |-> out, stderr |-> err, exitCode |-> code])

\* a variant whose handler keeps only the chunk that arrived last
ChildStdoutData_keeps_last_chunk ==
    /\ permPc = "awaiting" /\ childState = "running" /\ nChunks < MaxChunks
    /\ \E data \in Chunks :
         /\ stdoutBuf' = data
         /\ arrived' = Append(arrived, [stream |-> "stdout", data |-> data])
    /\ nChunks' = nChunks + 1
    /\ UNCHANGED <<tmuxVars, tool, mode, req, permPc, printed, exitStatus, spawns,
                   childState, stdinWritten, stdinEnded, stderrBuf, promise>>

\* child.stdout.on('data', (data) => { stdout += data.toString() })
ChildStdoutData ==
    /\ permPc = "awaiting" /\ childState = "running" /\ nChunks < MaxChunks
    /\ \E data \in Chunks :
         /\ stdoutBuf' = stdoutBuf \o data
         /\ arrived' = Append(arrived, [stream |-> "stdout", data |-> data])
    /\ nChunks' = nChunks + 1
    /\ UNCHANGED <<tmuxVars, tool, mode, req, permPc, printed, exitStatus, spawns,
                   childState, stdinWritten, stdinEnded, stderrBuf, promise>>

\* child.stderr.on('data', (data) => { stderr += data.toString() })
ChildStderrData ==
    /\ permPc = "awaiting" /\ childState = "running" /\ nChunks < MaxChunks
    /\ \E data \in Chunks :
         /\ stderrBuf' = stderrBuf \o data
         /\ arrived' = Append(arrived, [stream |-> "stderr", data |-> data])
    /\ nChunks' = nChunks + 1
    /\ UNCHANGED <<tmuxVars, tool, mode, req, permPc, printed, exitStatus, spawns,
                   childState, stdinWritten, stdinEnded, stdoutBuf, promise>>

\* the close event of a child that started
ChildClose ==
    /\ permPc = "awaiting" /\ childState = "running"
    /\ \E code \in ExitCodes : promise' = onClose(promise, stdoutBuf, stderrBuf, code)
    /\ childState' = "closed"
    /\ UNCHANGED <<tmuxVars, tool, mode, req, permPc, printed, exitStatus, spawns,
                   stdinWritten, stdinEnded, stdoutBuf, stderrBuf, nChunks, arrived>>

\* the error event of a child that could not be started
ChildError ==
    /\ permPc = "awaiting" /\ childState = "failed"
    /\ \E e \in SpawnErrors : promise' = onError(promise, e)
    /\ childState' = "errored"
    /\ UNCHANGED <<tmuxVars, tool, mode, req, permPc, printed, exitStatus, spawns,
                   stdinWritten, stdinEnded, stdoutBuf, stderrBuf, nChunks, arrived>>

\* the close event that follows the error event, when it is delivered before
\* the awaiting function resumes; its code is the negated errno
ChildCloseAfterError ==
    /\ permPc = "awaiting" /\ childState = "errored"
    /\ promise' = onClose(promise, stdoutBuf, stderrBuf, -2)
    /\ childState' = "failed_closed"
    /\ UNCHANGED <<tmuxVars, tool, mode, req, permPc, printed, exitStatus, spawns,
                   stdinWritten, stdinEnded, stdoutBuf, stderrBuf, nChunks, arrived>>

(***************************************************************************)
(* The permission tool: executePermissionsTool after its await.            *)
(***************************************************************************)
\* if (result.stderr) console.error(result.stderr)
relayStderr(result) ==
    IF result.stderr # << >> THEN <<LogError("stderr", result.stderr)>> ELSE << >>

\* a variant that prints the note for every action
notesExitCode_any_action(action, exitCode) == exitCode # 0

\* the test case prints the note when result.exitCode !== 0
notesExitCode(action, exitCode) == action = "test" /\ exitCode # 0

exitCodeNote(exitCode) ==
    Log("note", <<"\n", "Note: Permission test returned exit code ",
                  ToString(exitCode)>>)

\* a variant that ends after the key points
explainLines_without_reference(result) ==
    << Log("text", <<"Current permissions:">>),
       Log("stdout", result.stdout),
       Log("text", <<"\n", "Permission System Explanation:">>),
       Log("text", <<"Key points:">>) >>

\* the lines the explain case prints around the child's stdout
explainLines(result) ==
    << Log("text", <<"Current permissions:">>),
       Log("stdout", result.stdout),
       Log("text", <<"\n", "Permission System Explanation:">>),
       Log("text", <<"These permissions control which tools Amp can use and how.">>),
       Log("text", <<"Key points:">>),
       Log("text", <<"- Rules are evaluated in order - FIRST MATCHING RULE WINS">>),
       Log("text", <<"- Arguments are matched exactly unless wildcards (*) are present">>),
       Log("text", <<"- Use /regex/ syntax for regular expression matching">>),
       Log("text", <<"- Available actions: allow, reject, ask, delegate">>),
       Log("text", << >>),
       Log("instructions", PERMISSION_INSTRUCTIONS) >>

\* what each case prints once runAmpCommand* resolved
relayResult(action, result) ==
    IF action = "explain" THEN explainLines(result)
    ELSE <<Log("stdout", result.stdout)>> \o relayStderr(result)
         \o (IF notesExitCode(action, result.exitCode)
             THEN <<exitCodeNote(result.exitCode)>> ELSE << >>)

\* the awaiting function resumes: with the result, or in its catch block
Resume ==
    /\ permPc = "awaiting" /\ promise.state \in {"resolved", "rejected"}
    /\ IF promise.state = "resolved"
       THEN /\ printed' = printed \o relayResult(inputAction(req), promise)
            /\ exitStatus' = 0
            /\ permPc' = "exited"
       ELSE catchError(printed, promise.reason)
    /\ UNCHANGED <<tmuxVars, tool, mode, req, spawns, childState, stdinWritten,
                   stdinEnded, stdoutBuf, stderrBuf, nChunks, arrived, promise>>

(***************************************************************************)
(* The permission tool: main.                                              *)
(***************************************************************************)
\* JSON.stringify(getToolSchema(), null, 2): the description embeds the
\* instruction block
getToolSchema ==
    <<"{name: permissions, description: Manage Amp tool permissions. ... ">>
    \o PERMISSION_INSTRUCTIONS
    \o <<" WARNING: ..., inputSchema: {...required: [action]}}">>

\* printed for a TOOLBOX_ACTION that is neither describe nor execute
unknownToolboxAction(m) ==
    LogError("mode", <<"Unknown TOOLBOX_ACTION: ",
                       IF m = "unset" THEN "undefined" ELSE m>>)

\* case 'describe': the schema is printed, then spawn('touch', 'holaaaa', ...)
\* is called with a string where the argument list belongs: the runtime
\* either throws on the argument's type or starts touch.
mainDescribe ==
    /\ tool = "permissions" /\ permPc = "start" /\ mode = "describe"
    /\ printed' = Append(printed, Log("schema", getToolSchema))
    /\ permPc' = "exited"
    /\ \/ exitStatus' = 1 /\ spawns' = spawns
       \/ /\ exitStatus' = 0
          /\ spawns' = Append(spawns, SpawnCall("touch", << >>, "ignore"))
    /\ UNCHANGED <<tmuxVars, tool, mode, req, childState, stdinWritten, stdinEnded,
                   stdoutBuf, stderrBuf, nChunks, arrived, promise>>

\* case 'execute': the stdin handlers are registered
mainExecute ==
    /\ tool = "permissions" /\ permPc = "start" /\ mode = "execute"
    /\ permPc' = "reading"
    /\ UNCHANGED <<tmuxVars, tool, mode, req, printed, exitStatus, spawns, childState,
                   stdinWritten, stdinEnded, stdoutBuf, stderrBuf, nChunks, arrived,
                   promise>>

\* a variant that goes on to read the request when the mode is unknown
mainDefault_reads_request ==
    /\ tool = "permissions" /\ permPc = "start"
    /\ mode \notin {"describe", "execute"}
    /\ permPc' = "reading"
    /\ UNCHANGED <<tmuxVars, tool, mode, req, printed, exitStatus, spawns, childState,
                   stdinWritten, stdinEnded, stdoutBuf, stderrBuf, nChunks, arrived,
                   promise>>

\* default: the mode is unknown
mainDefault ==
    /\ tool = "permissions" /\ permPc = "start"
    /\ mode \notin {"describe", "execute"}
    /\ printed' = Append(printed, unknownToolboxAction(mode))
    /\ exitStatus' = 1
    /\ permPc' = "exited"
    /\ UNCHANGED <<tmuxVars, tool, mode, req, spawns, childState, stdinWritten,
                   stdinEnded, stdoutBuf, stderrBuf, nChunks, arrived, promise>>

\* process.stdin.on('end'): JSON.parse(input), then executePermissionsTool
\* runs to its first await
onStdinEnd ==
    /\ permPc = "reading"
    /\ IF req.json = "bad"
       THEN /\ printed' = Append(printed,
                   LogError("parse", <<"Error parsing input: ", "SyntaxError">>))
            /\ exitStatus' = 1
            /\ permPc' = "exited"
            /\ UNCHANGED <<spawns, childState, stdinWritten, stdinEnded,
                           stdoutBuf, stderrBuf, promise>>
       ELSE executePermissionsTool(req)
    /\ UNCHANGED <<tmuxVars, tool, mode, req, nChunks, arrived>>

PermNext ==
    \/ mainDescribe
    \/ mainExecute
    \/ mainDefault
    \/ onStdinEnd
    \/ ChildStdoutData
    \/ ChildStderrData
    \/ ChildClose
    \/ ChildError
    \/ ChildCloseAfterError
    \/ Resume

PermInit ==
    /\ permPc = "start"
    /\ printed = << >>
    /\ exitStatus = -1
    /\ spawns = << >>
    /\ childState = "none"
    /\ stdinWritten = << >>
    /\ stdinEnded = FALSE
    /\ stdoutBuf = << >>
    /\ stderrBuf = << >>
    /\ nChunks = 0
    /\ arrived = << >>
    /\ promise = NoPromise

(***************************************************************************)
(* The multiplexer tool.  Every external command is one step; the server   *)
(* handles one tmux command at a time.  `sh[p]` is the state of shell      *)
(* process p; a behaviour of Spec runs process 1 alone.                    *)
(***************************************************************************)
Procs == {1, 2}

\* $PWD values, as path texts, and the action names requests are drawn from
Cwds == { <<"/", "home", "/", "proj">>, <<"/", "srv", "/", "app">> }
MultiplexerActions ==
    {"list-windows", "run-shell", "capture-output", "send-keys",
     "run-raw-commands", "info"}
TmuxActionInputs == MultiplexerActions \cup {"bogus"}
Keys == { <<"a">>, <<"it", "'", "s">>, <<"echo", " ", "hi">>, <<"new-session">> }
Targets == { << >>, <<"foo", ":", "1.2">> }

TmuxRequests ==
    {MalformedRequest}
    \cup {Request("ok", TRUE, a, TRUE, as, << >>, t) :
            a \in TmuxActionInputs, as \in SeqsUpTo(Keys, MaxArgs), t \in Targets}
    \cup {Request("ok", TRUE, a, FALSE, << >>, << >>, t) :
            a \in TmuxActionInputs, t \in Targets}
    \cup {Request("ok", FALSE, "", TRUE, as, << >>, << >>) :
            as \in SeqsUpTo(Keys, 1)}

(***************************************************************************)
(* main: reading the request with jq and eval.                             *)
(***************************************************************************)
\* jq -r '.action': the text of the field, null when it is missing, and
\* nothing when the document does not parse
jq_action(input) ==
    IF input.json = "bad" THEN << >>
    ELSE IF input.hasAction THEN <<input.action>> ELSE <<"null">>

\* jq -r '.target // empty'
jq_target(input) == IF input.json = "bad" THEN << >> ELSE input.target

\* a variant that leaves a quote inside the string as it is
sh_escape_none(s) == s

\* @sh of one string: single quotes around it, each quote inside written '\''
RECURSIVE sh_escape(_)
sh_escape(s) ==
    IF s = << >> THEN << >>
    ELSE (IF Head(s) = "'" THEN <<"'", "\\", "'", "'">> ELSE <<Head(s)>>)
         \o sh_escape(Tail(s))

sh_quote(s) == <<"'">> \o sh_escape(s) \o <<"'">>

\* jq -r '.args | @sh // empty': the quoted elements separated by spaces;
\* null is formatted as the word null; nothing when the document does not parse
jq_args_sh(input) ==
    IF input.json = "bad" THEN << >>
    ELSE IF ~input.hasArgs THEN <<"null">>
    ELSE join([i \in 1..Len(input.args) |-> sh_quote(input.args[i])], <<" ">>)

\* the words the shell reads from a text: quotes group, a backslash outside
\* quotes takes the next character literally, spaces separate words
RECURSIVE sh_words(_, _, _, _, _)
sh_words(text, cur, inWord, inQuote, words) ==
    IF text = << >> THEN (IF inWord THEN Append(words, cur) ELSE words)
    ELSE LET c == Head(text) rest == Tail(text) IN
         IF inQuote
         THEN IF c = "'" THEN sh_words(rest, cur, TRUE, FALSE, words)
              ELSE sh_words(rest, cur \o <<c>>, TRUE, TRUE, words)
         ELSE IF c = "'" THEN sh_words(rest, cur, TRUE, TRUE, words)
         ELSE IF c = "\\" /\ rest # << >>
              THEN sh_words(Tail(rest), cur \o <<Head(rest)>>, TRUE, FALSE, words)
         ELSE IF c = " "
              THEN sh_words(rest, << >>, FALSE, FALSE,
                            IF inWord THEN Append(words, cur) ELSE words)
         ELSE sh_words(rest, cur \o <<c>>, TRUE, FALSE, words)

\* eval "args=($(jq -r '.args | @sh // empty' <<< "$input"))"
eval_args(input) == sh_words(jq_args_sh(input), << >>, FALSE, FALSE, << >>)

\* a variant that puts a supplied target first for every action
main_positional_target_always(action, target, args) ==
    IF target # << >> THEN <<target>> \o args ELSE args

\* the positional parameters main passes to run_tmux_command after the action
main_positional(action, target, args) ==
    IF action \in {<<"capture-output">>, <<"send-keys">>} /\ target # << >>
    THEN <<target>> \o args
    ELSE args

(***************************************************************************)
(* run_tmux_command: names and the calls it issues.  A call is the         *)
(* argument vector that follows `tmux -f /dev/null -L amp`.                *)
(***************************************************************************)
\* ${PWD##*/}: what follows the last slash
RECURSIVE session_name(_)
session_name(pwd) ==
    IF \A i \in 1..Len(pwd) : pwd[i] # "/" THEN pwd
    ELSE session_name(Tail(pwd))

\* a call of an external binary; rc and out (what it printed on its standard
\* output, where the adapter reads it) are filled in when the call returns
Call(bin, argv) == [bin |-> bin, argv |-> argv, rc |-> 0, out |-> << >>]
tmux_cmd(argv) == Call("tmux", argv)

has_session_call(name) == tmux_cmd(<< <<"has-session">>, <<"-t">>, name >>)
new_session_call(name, pwd) ==
    tmux_cmd(<< <<"new-session">>, <<"-d">>, <<"-s">>, name, <<"-c">>, pwd >>)
list_sessions_call == tmux_cmd(<< <<"list-sessions">> >>)
list_windows_call(name) ==
    tmux_cmd(<< <<"list-windows">>, <<"-t">>, name, <<"-F">>,
                <<"#{window_index}: #{window_name}">> >>)
new_window_call(name, pwd) ==
    tmux_cmd(<< <<"new-window">>, <<"-t">>, name, <<"-c">>, pwd, <<"-P">>,
                <<"-F">>, <<"#{window_index}">> >>)
\* a variant that addresses the session instead of the new window
run_shell_keys_call_to_session(name, window_id, command) ==
    tmux_cmd(<< <<"send-keys">>, <<"-t">>, name, command, <<"Enter">> >>)

\* send-keys -t "$session_name:$window_id" "$command" Enter
run_shell_keys_call(name, window_id, command) ==
    tmux_cmd(<< <<"send-keys">>, <<"-t">>, name \o <<":">> \o window_id,
                command, <<"Enter">> >>)
capture_pane_call(target) ==
    tmux_cmd(<< <<"capture-pane">>, <<"-t">>, target, <<"-p">> >>)
\* send-keys -t "$target" "$key"
send_key_call(target, key) ==
    tmux_cmd(<< <<"send-keys">>, <<"-t">>, target, key >>)
raw_call(args) == tmux_cmd(args)
sleep_call == Call("sleep", << <<"0.1">> >>)

\* "$1", empty when there is no such parameter
Param1(positional) == IF positional = << >> THEN << >> ELSE positional[1]

\* local target="${1:-$session_name}"
capture_target(positional, name) ==
    IF Param1(positional) # << >> THEN Param1(positional) ELSE name

\* a variant whose diagnostic leaves the action out
unknown_action_line_unnamed(action) ==
    LogError("unknown", <<"Unknown action", "\n">>)

\* what the unknown-action branch prints, and the status it returns
unknown_action_line(action) ==
    LogError("unknown", <<"Unknown action: ">> \o action \o <<"\n">>)
unknown_action_status == 1


SessionNames == {session_name(c) : c \in Cwds}

\* a shell process before it runs, and one that takes no part
ProcStart(r) ==
    [pc |-> "main", req |-> r, action |-> << >>, args |-> << >>,
     positional |-> << >>, target |-> << >>, window_id |-> << >>,
     command |-> << >>, calls |-> << >>, out |-> << >>, status |-> 0,
     exit |-> -1, existed |-> FALSE]
ProcOff == [ProcStart(MalformedRequest) EXCEPT !.pc = "off"]

\* the call, with the status it returned
Returned(call, rc) == [call EXCEPT !.rc = rc]

\* the process ends with status rc
Exit(me, rc) == [me EXCEPT !.pc = "done", !.status = rc, !.exit = rc]

(***************************************************************************)
(* The multiplexer tool: main.                                             *)
(***************************************************************************)
schema_line == Log("schema", <<"{name: tmux, description: ..., inputSchema: {...}}">>)
usage_line ==
    LogError("mode", <<"Set TOOLBOX_ACTION to describe or execute, then run again", "\n">>)

\* main: describe prints the schema; execute reads the request and enters
\* run_tmux_command; anything else prints the usage line and returns 1
main_zsh(p) ==
    LET me == sh[p] IN
    /\ me.pc = "main"
    /\ IF mode = "describe"
       THEN sh' = [sh EXCEPT ![p] = Exit([me EXCEPT !.out = Append(@, schema_line)], 0)]
       ELSE IF mode = "execute"
       THEN LET action == jq_action(me.req)
                target == jq_target(me.req)
                args == eval_args(me.req)
                positional == main_positional(action, target, args)
            IN sh' = [sh EXCEPT ![p] =
                        [me EXCEPT !.pc = "ensure", !.action = action,
                                   !.args = positional, !.positional = positional]]
       ELSE sh' = [sh EXCEPT ![p] = Exit([me EXCEPT !.out = Append(@, usage_line)], 1)]
    /\ UNCHANGED <<tool, mode, req, permVars, cwd, sessions, winCount>>

(***************************************************************************)
(* run_tmux_command: ensure the session exists.                            *)
(***************************************************************************)
\* a variant that creates the session without looking at the check's status
after_has_session_always_create(rc) == "create"

\* if ! has-session ...; then new-session ...; fi
after_has_session(rc) == IF rc # 0 THEN "create" ELSE "action"

\* has-session -t "$session_name": status 0 when the session exists
has_session(p) ==
    LET me == sh[p]
        name == session_name(cwd)
        rc == IF name \in sessions THEN 0 ELSE 1
    IN
    /\ me.pc = "ensure"
    /\ sh' = [sh EXCEPT ![p] =
                [me EXCEPT !.calls = Append(@, Returned(has_session_call(name), rc)),
                           !.status = rc, !.existed = (name \in sessions),
                           !.pc = after_has_session(rc)]]
    /\ UNCHANGED <<tool, mode, req, permVars, cwd, sessions, winCount>>

\* a variant that returns when the session could not be created
after_new_session_return_on_failure(rc) == IF rc # 0 THEN "done" ELSE "action"

\* fi; case "$action" in: the status of new-session is not looked at
after_new_session(rc) == "action"

\* new-session -d -s "$session_name" -c "$PWD": the server refuses a name it
\* already has, and creating a session may fail for the server's own reasons
new_session(p) ==
    LET me == sh[p]
        name == session_name(cwd)
    IN
    /\ me.pc = "create"
    /\ \E ok \in {FALSE, name \notin sessions} :
         /\ sessions' = IF ok THEN sessions \cup {name} ELSE sessions
         /\ winCount' = IF ok THEN [winCount EXCEPT ![name] = 1] ELSE winCount
         /\ sh' = [sh EXCEPT ![p] =
                     [me EXCEPT !.calls = Append(@, Returned(new_session_call(name, cwd),
                                                             IF ok THEN 0 ELSE 1)),
                                !.status = IF ok THEN 0 ELSE 1,
                                !.pc = after_new_session(IF ok THEN 0 ELSE 1)]]
    /\ UNCHANGED <<tool, mode, req, permVars, cwd>>

(***************************************************************************)
(* run_tmux_command: the case on the action.                               *)
(***************************************************************************)
info_lines ==
    << Log("text", <<"Server socket: amp", "\n">>),
       Log("text", <<"Connect with: tmux -L amp", "\n">>) >>

\* info: two lines, then list-sessions
do_info(p) ==
    LET me == sh[p]
        rc == IF sessions = {} THEN 1 ELSE 0
    IN
    /\ me.pc = "action" /\ me.action = <<"info">>
    /\ sh' = [sh EXCEPT ![p] =
                Exit([me EXCEPT !.out = @ \o info_lines,
                                !.calls = Append(@, Returned(list_sessions_call, rc))], rc)]
    /\ UNCHANGED <<tool, mode, req, permVars, cwd, sessions, winCount>>

\* list-windows -t "$session_name"
do_list_windows(p) ==
    LET me == sh[p]
        name == session_name(cwd)
        rc == IF name \in sessions THEN 0 ELSE 1
    IN
    /\ me.pc = "action" /\ me.action = <<"list-windows">>
    /\ sh' = [sh EXCEPT ![p] =
                Exit([me EXCEPT !.calls = Append(@, Returned(list_windows_call(name), rc))], rc)]
    /\ UNCHANGED <<tool, mode, req, permVars, cwd, sessions, winCount>>

\* run-shell, first call: new-window prints the index of the window it made,
\* and nothing when the session does not exist
do_new_window(p) ==
    LET me == sh[p]
        name == session_name(cwd)
        ok == name \in sessions
    IN
    /\ me.pc = "action" /\ me.action = <<"run-shell">>
    /\ winCount' = IF ok THEN [winCount EXCEPT ![name] = @ + 1] ELSE winCount
    /\ sh' = [sh EXCEPT ![p] =
                [me EXCEPT !.command = Param1(me.positional),
                           !.window_id = IF ok THEN <<ToString(winCount[name])>> ELSE << >>,
                           !.calls = Append(@, [Returned(new_window_call(name, cwd),
                                                         IF ok THEN 0 ELSE 1)
                                                EXCEPT !.out = IF ok THEN <<ToString(winCount[name])>>
                                                               ELSE << >>]),
                           !.status = IF ok THEN 0 ELSE 1,
                           !.pc = "send_command"]]
    /\ UNCHANGED <<tool, mode, req, permVars, cwd, sessions>>

\* where the server delivers keys sent to "$session_name:$window_id": nowhere
\* without the session, to the named window, and to the session's current
\* window (the one made last) when no window is named
resolve_window(name, window_id) ==
    IF name \notin sessions THEN << >>
    ELSE IF window_id # << >> THEN window_id
    ELSE <<ToString(winCount[name] - 1)>>

\* run-shell, second call: send-keys to the new window, then the report
do_send_command(p) ==
    LET me == sh[p]
        name == session_name(cwd)
    IN
    /\ me.pc = "send_command"
    /\ \E rc \in {0, 1} :
         sh' = [sh EXCEPT ![p] =
                  Exit([me EXCEPT !.calls = Append(@, Returned(
                                      run_shell_keys_call(name, me.window_id, me.command), rc)
                                      @@ [pane |-> resolve_window(name, me.window_id)]),
                                  !.out = Append(@, Log("text",
                                      <<"Started command in window ">> \o me.window_id
                                      \o <<"\n">>))], 0)]
    /\ UNCHANGED <<tool, mode, req, permVars, cwd, sessions, winCount>>

\* capture-output: capture-pane -t "$target" -p
do_capture_output(p) ==
    LET me == sh[p]
        target == capture_target(me.positional, session_name(cwd))
    IN
    /\ me.pc = "action" /\ me.action = <<"capture-output">>
    /\ \E rc \in {0, 1} :
         sh' = [sh EXCEPT ![p] =
                  Exit([me EXCEPT !.target = target,
                                  !.calls = Append(@, Returned(capture_pane_call(target), rc))],
                       rc)]
    /\ UNCHANGED <<tool, mode, req, permVars, cwd, sessions, winCount>>

\* send-keys: local target="$1"; shift; the loop then runs over what is left
do_send_keys(p) ==
    LET me == sh[p]
        rest == IF me.positional = << >> THEN << >> ELSE Tail(me.positional)
    IN
    /\ me.pc = "action" /\ me.action = <<"send-keys">>
    /\ sh' = [sh EXCEPT ![p] =
                IF rest = << >>
                THEN Exit([me EXCEPT !.target = Param1(me.positional),
                                     !.positional = rest], 0)
                ELSE [me EXCEPT !.target = Param1(me.positional),
                                !.positional = rest, !.pc = "send_key"]]
    /\ UNCHANGED <<tool, mode, req, permVars, cwd, sessions, winCount>>

\* the loop body, first command: send-keys -t "$target" "$key"
do_send_key(p) ==
    LET me == sh[p] IN
    /\ me.pc = "send_key"
    /\ \E rc \in {0, 1} :
         sh' = [sh EXCEPT ![p] =
                  [me EXCEPT !.calls = Append(@, Returned(
                                 send_key_call(me.target, Head(me.positional)), rc)),
                             !.status = rc, !.pc = "sleep"]]
    /\ UNCHANGED <<tool, mode, req, permVars, cwd, sessions, winCount>>

\* the loop body, second command: sleep 0.1; then the next key, or the end
do_sleep(p) ==
    LET me == sh[p]
        rest == Tail(me.positional)
        slept == [me EXCEPT !.calls = Append(@, sleep_call), !.positional = rest,
                            !.status = 0]
    IN
    /\ me.pc = "sleep"
    /\ sh' = [sh EXCEPT ![p] =
                IF rest = << >> THEN Exit(slept, 0) ELSE [slept EXCEPT !.pc = "send_key"]]
    /\ UNCHANGED <<tool, mode, req, permVars, cwd, sessions, winCount>>

\* run-raw-commands: the args, verbatim
do_run_raw_commands(p) ==
    LET me == sh[p] IN
    /\ me.pc = "action" /\ me.action = <<"run-raw-commands">>
    /\ \E rc \in {0, 1} :
         sh' = [sh EXCEPT ![p] =
                  Exit([me EXCEPT !.calls = Append(@, Returned(raw_call(me.args), rc))], rc)]
    /\ UNCHANGED <<tool, mode, req, permVars, cwd, sessions, winCount>>

\* any other action: the diagnostic, and return 1
do_unknown_action(p) ==
    LET me == sh[p] IN
    /\ me.pc = "action" /\ me.action \notin {<<a>> : a \in MultiplexerActions}
    /\ sh' = [sh EXCEPT ![p] =
                Exit([me EXCEPT !.out = Append(@, unknown_action_line(me.action))],
                     unknown_action_status)]
    /\ UNCHANGED <<tool, mode, req, permVars, cwd, sessions, winCount>>

run_tmux_command(p) ==
    \/ has_session(p)
    \/ new_session(p)
    \/ do_info(p)
    \/ do_list_windows(p)
    \/ do_new_window(p)
    \/ do_send_command(p)
    \/ do_capture_output(p)
    \/ do_send_keys(p)
    \/ do_send_key(p)
    \/ do_sleep(p)
    \/ do_run_raw_commands(p)
    \/ do_unknown_action(p)

TmuxNext == \E p \in Procs : main_zsh(p) \/ run_tmux_command(p)

(***************************************************************************)
(* Specification: one invocation of one of the two tools.                  *)
(***************************************************************************)
PermIdle ==
    /\ cwd = << >>
    /\ sessions = {}
    /\ winCount = [n \in SessionNames |-> 0]
    /\ sh = [p \in Procs |-> ProcOff]

InitPermissions ==
    /\ tool = "permissions"
    /\ mode \in Modes
    /\ req \in PermRequests
    /\ PermInit
    /\ PermIdle

\* the server before the invocation: any set of sessions, each with windows
ServerInit ==
    /\ cwd \in Cwds
    /\ sessions \in SUBSET SessionNames
    /\ winCount \in [SessionNames -> 0..2]
    /\ \A n \in SessionNames : winCount[n] > 0 <=> n \in sessions

InitTmux ==
    /\ tool = "tmux"
    /\ mode \in Modes
    /\ req = MalformedRequest
    /\ PermInit
    /\ ServerInit
    /\ \E r \in TmuxRequests : sh = [p \in Procs |-> IF p = 1 THEN ProcStart(r) ELSE ProcOff]

Init == InitPermissions \/ InitTmux

Next == PermNext \/ TmuxNext

Spec == Init /\ [][Next]_vars

(***************************************************************************)
(* Two invocations of the multiplexer tool at once, in one working         *)
(* directory, against one server.  A step is one command of one of them.   *)
(***************************************************************************)
ConcRequests ==
    { Request("ok", TRUE, "info", TRUE, << >>, << >>, << >>),
      Request("ok", TRUE, "list-windows", TRUE, << >>, << >>, << >>),
      Request("ok", TRUE, "run-shell", TRUE, << <<"echo", " ", "hi">> >>, << >>, << >>),
      Request("ok", TRUE, "run-shell", TRUE, << <<"a">> >>, << >>, << >>),
      Request("ok", TRUE, "capture-output", TRUE, << >>, << >>, << >>),
      Request("ok", TRUE, "send-keys", TRUE, << <<"a">> >>, << >>, <<"foo", ":", "1.2">>),
      Request("ok", TRUE, "run-raw-commands", TRUE, << <<"a">> >>, << >>, << >>),
      Request("ok", TRUE, "bogus", TRUE, << >>, << >>, << >>) }

InitConc ==
    /\ tool = "tmux"
    /\ mode = "execute"
    /\ req = MalformedRequest
    /\ PermInit
    /\ ServerInit
    /\ sh \in [Procs -> {ProcStart(r) : r \in ConcRequests}]

NextConc == TmuxNext

SpecConc == InitConc /\ [][NextConc]_vars

(***************************************************************************)
(* Properties.                                                             *)
(***************************************************************************)
Last(seq) == seq[Len(seq)]
Range(seq) == {seq[i] : i \in DOMAIN seq}

\* process p is inside or past run_tmux_command's case statement
PastEnsure(p) == sh[p].pc \in {"action", "send_command", "send_key", "sleep", "done"}
                 /\ mode = "execute"

\* a new-session call, and process p's positions of such calls
IsCreate(call) ==
    call.bin = "tmux" /\ call.argv # << >> /\ Head(call.argv) = <<"new-session">>
IsHasSession(call) ==
    call.bin = "tmux" /\ call.argv # << >> /\ Head(call.argv) = <<"has-session">>
Creates(p) == {i \in DOMAIN sh[p].calls : IsCreate(sh[p].calls[i])}

\* the number of calls the ensure step of process p issued, and the calls
\* of the requested action that follow them
EnsureLen(p) == IF sh[p].existed THEN 1 ELSE 2
OwnCalls(p) ==
    IF Len(sh[p].calls) <= EnsureLen(p) THEN << >>
    ELSE SubSeq(sh[p].calls, EnsureLen(p) + 1, Len(sh[p].calls))

\* a call without what it returned
Issued(call) == [bin |-> call.bin, argv |-> call.argv]
IssuedAll(calls) == [i \in DOMAIN calls |-> Issued(calls[i])]

IsPrefix(a, b) == Len(a) <= Len(b) /\ a = SubSeq(b, 1, Len(a))

\* C1 as stated: once the ensure step is over, the calls of the invocation
\* hold exactly one new-session call, the second call, when the session was
\* absent at the check, and none when it existed.
C1_ExactlyOneCreateAmongAllCalls ==
    \A p \in Procs :
        PastEnsure(p) =>
            Creates(p) = IF sh[p].existed THEN {} ELSE {2}

\* C1, amended: in execute mode the first call is the has-session check; when
\* the session was absent at the check the ensure step issues exactly one
\* new-session call, as the second call and so before every call of the
\* requested action, and when it existed the ensure step issues none.  The
\* only other new-session call an invocation can issue is the verbatim call
\* of a run-raw-commands request whose own args start with new-session.
C1_EnsureCreatesSessionOnce ==
    \A p \in Procs :
        PastEnsure(p) =>
            LET cs == sh[p].calls IN
            /\ Len(cs) >= EnsureLen(p)
            /\ IsHasSession(cs[1])
            /\ cs[1].argv = << <<"has-session">>, <<"-t">>, session_name(cwd) >>
            /\ ~sh[p].existed => 2 \in Creates(p)
            /\ \A i \in Creates(p) \ (IF sh[p].existed THEN {} ELSE {2}) :
                 /\ sh[p].action = <<"run-raw-commands">>
                 /\ i = EnsureLen(p) + 1
                 /\ i = Len(cs)
                 /\ cs[i].argv = eval_args(sh[p].req)

\* C1 witness: an invocation that found no session, created it and went on
\* to issue a call of its action
C1_Witness ==
    \E p \in Procs :
        /\ sh[p].pc = "done" /\ mode = "execute"
        /\ ~sh[p].existed
        /\ Creates(p) = {2}
        /\ Len(sh[p].calls) >= 3
        /\ session_name(cwd) \in sessions

\* a permission request that is read in execute mode
PermRequestRead == tool = "permissions" /\ mode = "execute" /\ req.json = "ok"

IsErrorLine(line) ==
    line.fd = "err" /\ line.text # << >> /\ Head(line.text) = "Error: "
IsNotice(line) ==
    line.text # << >> /\ Head(line.text) = "Replacing all permissions with "

\* C2: a test, add or edit request with empty or omitted args never spawns a
\* subprocess and never prints the replacing notice, never waits for a child,
\* and ends with an `Error: ` line on the error stream and exit status 1.
C2_EmptyArgsFailLocally ==
    (/\ PermRequestRead
     /\ req.hasAction /\ req.action \in {"test", "add", "edit"}
     /\ (req.hasArgs => req.args = << >>))
    => /\ spawns = << >>
       /\ \A i \in DOMAIN printed : ~IsNotice(printed[i])
       /\ permPc \in {"start", "reading", "exited"}
       /\ permPc = "exited" =>
            /\ exitStatus = 1
            /\ Len(printed) = 1
            /\ IsErrorLine(printed[1])
            /\ Len(printed[1].text) > 1

\* C2 witness: an edit request without rules that ended
C2_Witness ==
    /\ PermRequestRead
    /\ req.hasAction /\ req.action = "edit" /\ req.hasArgs /\ req.args = << >>
    /\ permPc = "exited"

\* the text of a line names the value v
Names(line, v) == \E i \in DOMAIN line.text : line.text[i] = v

\* C3: an execute-mode request whose action is not one of the tool's actions,
\* or is missing, ends with exit status 1 and with a last line on the error
\* stream that holds the action value as the tool read it (undefined and null
\* for a missing action).
C3_UnknownActionFails ==
    /\ (/\ PermRequestRead
        /\ ~(req.hasAction /\ req.action \in PermissionActions)
        /\ permPc = "exited")
       => /\ exitStatus = 1
          /\ printed # << >>
          /\ Last(printed).fd = "err"
          /\ Names(Last(printed), IF req.hasAction THEN req.action ELSE "undefined")
    /\ \A p \in Procs :
         (/\ tool = "tmux" /\ mode = "execute"
          /\ sh[p].req.json = "ok"
          /\ ~(sh[p].req.hasAction /\ sh[p].req.action \in MultiplexerActions)
          /\ sh[p].pc = "done")
         => /\ sh[p].exit = 1
            /\ sh[p].out # << >>
            /\ Last(sh[p].out).fd = "err"
            /\ Names(Last(sh[p].out),
                     IF sh[p].req.hasAction THEN sh[p].req.action ELSE "null")

\* C3 witness: a multiplexer request with an unknown action that ended after
\* its ensure step had found no session
C3_Witness ==
    /\ tool = "tmux" /\ mode = "execute" /\ sh[1].pc = "done"
    /\ sh[1].req.json = "ok" /\ sh[1].req.hasAction
    /\ sh[1].req.action = "bogus" /\ sh[1].exit = 1
    /\ ~sh[1].existed

\* a request the tool cannot serve: malformed JSON, or an action that is
\* missing or not one of the tool's actions
InputError(r, actions) ==
    r.json = "bad" \/ ~(r.hasAction /\ r.action \in actions)

\* C4 as stated: on an input error the permission tool never spawns amp and
\* the multiplexer tool never issues a multiplexer call, the has-session
\* check and the new-session call included.
C4_InputErrorBeforeAnyCall ==
    /\ (tool = "permissions" /\ mode = "execute"
        /\ InputError(req, PermissionActions))
       => \A i \in DOMAIN spawns : spawns[i].file # "amp"
    /\ \A p \in Procs :
         (tool = "tmux" /\ mode = "execute" /\ sh[p].pc # "off"
          /\ InputError(sh[p].req, MultiplexerActions))
         => \A i \in DOMAIN sh[p].calls : sh[p].calls[i].bin # "tmux"

\* the child of the permission tool started, closed, and the request ended
StartedAndClosed == PermRequestRead /\ childState = "closed" /\ permPc = "exited"

IsExitCodeNote(line) ==
    \E i \in DOMAIN line.text :
        line.text[i] = "Note: Permission test returned exit code "

\* C5: when the subprocess started and closed, with any exit code, the
\* request ends with status 0 and without an `Error: ` line, for each of
\* explain, test, add and edit; and the exit-code note is printed exactly
\* when the action is test and the exit code is not 0.
C5_ExitCodeIsNotAnError ==
    StartedAndClosed =>
        /\ exitStatus = 0
        /\ \A i \in DOMAIN printed : ~IsErrorLine(printed[i])
        /\ (\E i \in DOMAIN printed : IsExitCodeNote(printed[i]))
             <=> (req.action = "test" /\ promise.exitCode # 0)
        /\ \A i \in DOMAIN printed :
             IsExitCodeNote(printed[i]) =>
                 /\ i = Len(printed)
                 /\ Last(printed[i].text) = ToString(promise.exitCode)

\* C5 witness: an add request whose child closed with a non-zero exit code
C5_Witness ==
    StartedAndClosed /\ req.action = "add" /\ promise.exitCode = 2
    /\ promise.stderr # << >>

\* the child could not be started and has emitted its error event
SpawnFailed == PermRequestRead /\ childState \in {"errored", "failed_closed"}

\* C6: when the child emits an error event, then for every action, and
\* whether or not its close event is delivered before the awaiting function
\* resumes, the promise is rejected, nothing of a subprocess result is
\* printed, and the request ends with exit status 1 and the line
\* `Error: Failed to execute amp command: <reason>` on the error stream.
C6_SpawnErrorIsReported ==
    SpawnFailed =>
        /\ promise.state = "rejected"
        /\ \A i \in DOMAIN printed : printed[i].kind \notin {"stdout", "stderr", "note"}
        /\ permPc = "exited" =>
             /\ exitStatus = 1
             /\ IsErrorLine(Last(printed))
             /\ Len(Last(printed).text) = 3
             /\ Last(printed).text[2] = "Failed to execute amp command: "
             /\ <<Last(printed).text[3]>> \in SpawnErrors

\* C6 witness: an explain request whose child failed to start, whose close
\* event arrived after the error event, and which then ended
C6_Witness ==
    /\ SpawnFailed /\ childState = "failed_closed" /\ permPc = "exited"
    /\ req.action = "explain"

\* a multiplexer request of process p, read in execute mode, with the action a
TmuxRequestRead(p, a) ==
    /\ tool = "tmux" /\ mode = "execute" /\ sh[p].pc \notin {"off", "main"}
    /\ sh[p].req.json = "ok" /\ sh[p].req.hasAction /\ sh[p].req.action = a

\* key-send calls to target t, one per key, each followed by the pause
KeySends(t, keys) ==
    [i \in 1..(2 * Len(keys)) |->
        IF i % 2 = 1
        THEN [bin |-> "tmux",
              argv |-> << <<"send-keys">>, <<"-t">>, t, keys[(i + 1) \div 2] >>]
        ELSE [bin |-> "sleep", argv |-> << <<"0.1">> >>]]

\* C7: for a send-keys request with a target t (a non-empty target field)
\* and args [k1..kn], the calls of the action are at every moment a prefix
\* of send-keys -t t k1, sleep, ..., send-keys -t t kn, sleep, and are all of
\* it when the request has ended: one key per call, in order, each call
\* followed by the pause and issued after the previous pause.
C7_SendKeysInOrder ==
    \A p \in Procs :
        (/\ TmuxRequestRead(p, "send-keys")
         /\ sh[p].req.target # << >>
         /\ sh[p].req.hasArgs)
        => LET want == KeySends(sh[p].req.target, sh[p].req.args)
               got == IssuedAll(OwnCalls(p))
           IN /\ IsPrefix(got, want)
              /\ sh[p].pc = "done" => got = want
              /\ sh[p].pc = "send_key" => Len(got) % 2 = 0
              /\ sh[p].pc = "sleep" => Len(got) % 2 = 1

\* C7 witness: a send-keys request with two keys, one holding a quote, ended
C7_Witness ==
    /\ TmuxRequestRead(1, "send-keys") /\ sh[1].pc = "done"
    /\ sh[1].req.target # << >>
    /\ sh[1].req.hasArgs /\ Len(sh[1].req.args) = 2
    /\ sh[1].req.args[1] = <<"it", "'", "s">>
    /\ sh[1].req.args[2] = <<"a">>
    /\ Len(OwnCalls(1)) = 4

\* C8: for a run-shell request with args[0] = c, the calls of the action are
\* at every moment a prefix of, and at the end exactly: one new-window call
\* on the session named after the last segment of the working directory,
\* then one send-keys call that carries c and Enter and is addressed to
\* <session>:<index>, the index being what that new-window call printed.
C8_RunShellWindowThenKeys ==
    \A p \in Procs :
        (/\ TmuxRequestRead(p, "run-shell")
         /\ sh[p].req.hasArgs /\ sh[p].req.args # << >>)
        => LET own == OwnCalls(p)
               c == sh[p].req.args[1]
               session == <<Last(cwd)>>
           IN /\ Len(own) <= 2
              /\ sh[p].pc = "done" => Len(own) = 2
              /\ sh[p].pc = "send_command" => Len(own) = 1
              /\ Len(own) >= 1 =>
                   /\ own[1].bin = "tmux"
                   /\ Head(own[1].argv) = <<"new-window">>
                   /\ own[1].argv[2] = <<"-t">> /\ own[1].argv[3] = session
              /\ Len(own) = 2 =>
                   own[2].argv = << <<"send-keys">>, <<"-t">>,
                                    session \o <<":">> \o own[1].out, c, <<"Enter">> >>

\* C8 witness: a run-shell request ended whose new window got an index
C8_Witness ==
    /\ TmuxRequestRead(1, "run-shell") /\ sh[1].pc = "done"
    /\ sh[1].req.hasArgs /\ sh[1].req.args # << >>
    /\ sh[1].req.args[1] = <<"echo", " ", "hi">>
    /\ Len(OwnCalls(1)) = 2
    /\ OwnCalls(1)[1].out = <<"2">>

\* C9 as stated: every capture-output request, whatever its args, addresses
\* its capture-pane call to the bare session name when the request has no
\* target, and to the target verbatim when it has one.
C9_CaptureTargetDefaultsToSession ==
    \A p \in Procs :
        (TmuxRequestRead(p, "capture-output") /\ sh[p].pc = "done")
        => LET own == OwnCalls(p) IN
           /\ Len(own) = 1
           /\ Head(own[1].argv) = <<"capture-pane">>
           /\ own[1].argv[3] = IF sh[p].req.target = << >>
                               THEN <<Last(cwd)>>
                               ELSE sh[p].req.target

\* the block r1 \n r2 \n ... rn, without a newline at its end
NewlineSeparated(rules) ==
    Concat([i \in 1..(2 * Len(rules) - 1) |->
              IF i % 2 = 1 THEN rules[(i + 1) \div 2] ELSE <<"\n">>])

\* an edit request with at least one rule that has been dispatched
EditDispatched ==
    /\ PermRequestRead /\ req.hasAction /\ req.action = "edit"
    /\ req.hasArgs /\ req.args # << >>
    /\ permPc \in {"awaiting", "exited"}

\* C10: an edit request with rules r1..rn, n >= 1, makes exactly one spawn
\* call, of amp permissions edit with no rule in its argument vector and a
\* pipe as standard input; whenever the child has a standard input stream
\* (always when it started) exactly one write is made to it, of r1..rn
\* joined by single newlines, and the stream is then ended; and the notice
\* `Replacing all permissions with n rule(s)...` is the first line printed,
\* before the child's output.
C10_EditFeedsRulesOnStdin ==
    EditDispatched =>
        /\ Len(spawns) = 1
        /\ spawns[1].file = "amp" /\ spawns[1].stdin = "pipe"
        /\ \A i \in DOMAIN spawns[1].argv : spawns[1].argv[i] \notin Range(req.args)
        /\ LET n == Len(spawns[1].argv) IN
             /\ n >= 2
             /\ spawns[1].argv[n - 1] = <<"permissions">>
             /\ spawns[1].argv[n] = <<"edit">>
        /\ stdinWritten \in {<< >>, <<NewlineSeparated(req.args)>>}
        /\ stdinEnded <=> stdinWritten # << >>
        /\ childState \in {"running", "closed"} => stdinEnded
        /\ printed # << >>
        /\ printed[1] = Log("notice", <<"Replacing all permissions with ",
                                        ToString(Len(req.args)), " rule(s)...">>)
        /\ \A i \in DOMAIN printed :
             printed[i].kind \in {"stdout", "stderr"} => i > 1

\* C10 witness: an edit request with two rules whose child closed and whose
\* output was relayed
C10_Witness ==
    /\ EditDispatched /\ Len(req.args) = 2 /\ req.args[1] # req.args[2]
    /\ childState = "closed" /\ permPc = "exited"
    /\ Len(printed) >= 3
    /\ stdinWritten = << req.args[1] \o <<"\n">> \o req.args[2] >>

\* the argument vector C11 describes for a request r
ExpectedAmpArgv(r) ==
    (IF r.settingsFile = << >> THEN << >>
     ELSE << <<"--settings-file">>,
             IF Head(r.settingsFile) = "~"
             THEN <<"/home/u">> \o Tail(r.settingsFile)
             ELSE r.settingsFile >>)
    \o << <<"permissions">>,
          IF r.action = "explain" THEN <<"list">> ELSE <<r.action>> >>
    \o (IF r.action \in {"test", "add"} THEN r.args ELSE << >>)

\* C11: for every action, the one spawn call of a request runs amp with the
\* vector permissions <subcommand> followed by args for test and add and by
\* nothing for explain and edit, explain running list and the others their
\* own name; with a settingsFile the vector starts with --settings-file and
\* the path, a leading ~ replaced by the home directory, and without one no
\* --settings-file appears.
C11_AmpArgumentVector ==
    (PermRequestRead /\ spawns # << >>)
    => /\ Len(spawns) = 1
       /\ spawns[1].file = "amp"
       /\ req.hasAction /\ req.action \in PermissionActions
       /\ spawns[1].argv = ExpectedAmpArgv(req)
       /\ req.settingsFile = << >> =>
            \A i \in DOMAIN spawns[1].argv : spawns[1].argv[i] # <<"--settings-file">>

\* C11 witness: a test request with two arguments and a settings file under
\* the home directory, spawned
C11_Witness ==
    /\ PermRequestRead /\ spawns # << >>
    /\ req.action = "test" /\ Len(req.args) = 2
    /\ req.settingsFile = <<"~", "/settings.json">>
    /\ spawns[1].argv[2] = <<"/home/u", "/settings.json">>

\* the request r with its target field removed
WithoutTarget(r) == [r EXCEPT !.target = << >>]

TargetBlindActions == {"info", "list-windows", "run-shell", "run-raw-commands"}

\* the calls of the action of a request r, given the window index the
\* server printed (run-shell only)
ActionCalls(r, printedIndex) ==
    LET name == session_name(cwd)
        args == eval_args(r)
    IN CASE r.action = "info" -> << Issued(list_sessions_call) >>
         [] r.action = "list-windows" -> << Issued(list_windows_call(name)) >>
         [] r.action = "run-shell" ->
              << Issued(new_window_call(name, cwd)),
                 Issued(run_shell_keys_call(name, printedIndex, Param1(args))) >>
         [] r.action = "run-raw-commands" -> << Issued(raw_call(args)) >>
         [] OTHER -> << >>

\* C12: for info, list-windows, run-shell and run-raw-commands the calls
\* issued are those of the same request with its target field removed: the
\* ensure calls name only the session and the directory, and the action's
\* calls, given what the server answered, are computed from the request
\* without its target.  Two requests that differ only in target have the
\* same request without target, hence the same call sequence.
C12_TargetIgnoredByOtherActions ==
    \A a \in TargetBlindActions :
      TmuxRequestRead(1, a) =>
        LET me == sh[1]
            r0 == WithoutTarget(me.req)
            own == OwnCalls(1)
            index == IF own = << >> THEN << >> ELSE own[1].out
            ensure == << Issued(has_session_call(session_name(cwd))),
                         Issued(new_session_call(session_name(cwd), cwd)) >>
        IN /\ IsPrefix(IssuedAll(SubSeq(me.calls, 1, Len(me.calls) - Len(own))), ensure)
           /\ IsPrefix(IssuedAll(own), ActionCalls(r0, index))
           /\ me.pc = "done" => IssuedAll(own) = ActionCalls(r0, index)

\* C12 witness: a run-shell request with a target and a run-raw-commands
\* request with a target have both issued all their calls
C12_Witness ==
    /\ TmuxRequestRead(1, "run-shell") \/ TmuxRequestRead(1, "run-raw-commands")
    /\ sh[1].req.target # << >> /\ sh[1].req.args # << >>
    /\ sh[1].pc = "done" /\ OwnCalls(1) # << >>

\* the permission tool has not read its standard input, nor started amp
PermNothingRead ==
    /\ permPc \in {"start", "exited"}
    /\ childState = "none" /\ promise = NoPromise
    /\ \A i \in DOMAIN spawns : spawns[i].file # "amp"

\* process p of the multiplexer tool has not parsed a request, nor called tmux
TmuxNothingRead(p) ==
    /\ sh[p].pc \in {"main", "done"}
    /\ sh[p].action = << >> /\ sh[p].positional = << >>
    /\ sh[p].calls = << >>

\* C13: in both tools the mode decides the run.  With describe the schema
\* is what is printed, no request is read and amp or tmux is never called.
\* With execute one request is read and, when it parses, dispatched once: the
\* permission tool makes at most one spawn call, of amp with the request's
\* vector, or rejects the request; the multiplexer tool passes the request's
\* action and arguments to run_tmux_command, whose first call is the session
\* check.  With any other value, unset included, the run ends with status 1
\* and one diagnostic on standard error, no request read and no binary called.
C13_ModeDecidesTheRun ==
    /\ (tool = "permissions" /\ mode = "describe") =>
         /\ PermNothingRead
         /\ permPc = "exited" => printed = << Log("schema", getToolSchema) >>
    /\ (tool = "tmux" /\ mode = "describe") =>
         /\ TmuxNothingRead(1)
         /\ sh[1].pc = "done" => sh[1].out = << schema_line >> /\ sh[1].exit = 0
    /\ (tool = "permissions" /\ mode \notin {"describe", "execute"}) =>
         /\ PermNothingRead /\ spawns = << >>
         /\ permPc = "exited" =>
              /\ exitStatus = 1 /\ Len(printed) = 1
              /\ printed[1].fd = "err" /\ printed[1].kind = "mode"
    /\ (tool = "tmux" /\ mode \notin {"describe", "execute"}) =>
         /\ TmuxNothingRead(1)
         /\ sh[1].pc = "done" => sh[1].out = << usage_line >> /\ sh[1].exit = 1
    /\ (tool = "permissions" /\ mode = "execute") =>
         /\ \A i \in DOMAIN printed : printed[i].kind \notin {"schema", "mode"}
         /\ Len(spawns) <= 1
         /\ permPc = "exited" => printed # << >>
         /\ (req.json = "ok" /\ permPc \in {"awaiting", "exited"}) =>
              \/ Len(spawns) = 1 /\ spawns[1] .file = "amp"
                 /\ spawns[1].argv = ExpectedAmpArgv(req)
              \/ spawns = << >> /\ exitStatus = 1 /\ IsErrorLine(Last(printed))
    /\ (tool = "tmux" /\ mode = "execute" /\ sh[1].pc # "main") =>
         /\ sh[1].action = jq_action(sh[1].req)
         /\ sh[1].args = main_positional(sh[1].action, jq_target(sh[1].req),
                                         eval_args(sh[1].req))
         /\ \A i \in DOMAIN sh[1].out : sh[1].out[i].kind \notin {"schema", "mode"}
         /\ sh[1].pc # "ensure" =>
              /\ IsHasSession(sh[1].calls[1])
              /\ \A i \in 2..Len(sh[1].calls) : ~IsHasSession(sh[1].calls[i])

\* C13 witness: the permission tool under describe has printed the schema
\* and started a program, which is not amp
C13_Witness ==
    /\ tool = "permissions" /\ mode = "describe" /\ permPc = "exited"
    /\ spawns # << >> /\ spawns[1].file = "touch"

\* C14: for explain, once the list subprocess that was started has closed
\* and the run has ended, whatever it wrote and whatever its exit code, the
\* output has the subprocess's standard output and, later, the instructional
\* block as the source defines it; nothing went to standard error and the
\* exit status is 0.
C14_ExplainAlwaysPrintsInstructions ==
    (PermRequestRead /\ req.hasAction /\ req.action = "explain"
     /\ childState = "closed" /\ permPc = "exited")
    => /\ exitStatus = 0
       /\ \A i \in DOMAIN printed : printed[i].fd = "out"
       /\ \E i, j \in DOMAIN printed :
            /\ i < j
            /\ printed[i] = Log("stdout", stdoutBuf)
            /\ printed[j].text = PERMISSION_INSTRUCTIONS
       /\ Last(printed).text = PERMISSION_INSTRUCTIONS

\* C14 witness: list wrote to both streams and closed with a non-zero code
C14_Witness ==
    /\ PermRequestRead /\ req.hasAction /\ req.action = "explain"
    /\ childState = "closed" /\ permPc = "exited"
    /\ promise.exitCode = 2 /\ stdoutBuf # << >> /\ stderrBuf # << >>

\* the calls of process p's action that address a window or pane of the
\* session named after the working directory
WindowLevelCalls(p) ==
    LET own == OwnCalls(p)
        name == session_name(cwd)
    IN {i \in DOMAIN own :
          \/ Head(own[i].argv) \in {<<"list-windows">>, <<"new-window">>}
          \/ /\ sh[p].action = <<"run-shell">>
             /\ Head(own[i].argv) = <<"send-keys">>
          \/ /\ sh[p].action = <<"capture-output">>
             /\ Head(own[i].argv) = <<"capture-pane">>
             /\ own[i].argv[3] = name}

\* C15: whenever the adapter has issued a window-level call of the requested
\* action (list-windows, new-window, the key-send to the new window, the
\* capture of the default target), the session named after the last segment
\* of the working directory exists on the server, also when new-session
\* failed.  (Sessions are never removed, so the session existing after the
\* call is the session existing when the call was issued.)
C15_SessionExistsAtWindowCalls ==
    (tool = "tmux" /\ mode = "execute"
     /\ sh[1].action \in {<<"list-windows">>, <<"run-shell">>, <<"capture-output">>}
     /\ WindowLevelCalls(1) # {})
    => session_name(cwd) \in sessions

\* the ensure step of process p failed: has-session reported the session
\* absent and new-session returned non-zero
EnsureFailed(p) ==
    /\ tool = "tmux" /\ mode = "execute"
    /\ Len(sh[p].calls) >= 2
    /\ IsHasSession(sh[p].calls[1]) /\ sh[p].calls[1].rc # 0
    /\ IsCreate(sh[p].calls[2]) /\ sh[p].calls[2].rc # 0

\* the calls run_tmux_command issues for the action after the ensure step
ExpectedOwnCalls(p) ==
    LET me == sh[p]
        a == me.action
    IN IF a = <<"capture-output">>
       THEN << Issued(capture_pane_call(capture_target(me.args, session_name(cwd)))) >>
       ELSE IF a = <<"send-keys">>
       THEN KeySends(Param1(me.args), IF me.args = << >> THEN << >> ELSE Tail(me.args))
       ELSE IF a \in {<<b>> : b \in TargetBlindActions}
       THEN ActionCalls(me.req, IF OwnCalls(p) = << >> THEN << >> ELSE OwnCalls(p)[1].out)
       ELSE << >>

\* C16: when the ensure step failed, the run goes on to the case on the
\* action and the action's own calls are issued all the same: the run ends
\* only after every one of them.
C16_ActionRunsAfterFailedEnsure ==
    EnsureFailed(1) =>
        /\ sh[1].pc \in {"action", "send_command", "send_key", "sleep", "done"}
        /\ IsPrefix(IssuedAll(OwnCalls(1)), ExpectedOwnCalls(1))
        /\ sh[1].pc = "done" => IssuedAll(OwnCalls(1)) = ExpectedOwnCalls(1)

\* C16 witness: the ensure step failed and a list-windows call followed
C16_Witness ==
    /\ EnsureFailed(1) /\ sh[1].pc = "done"
    /\ sh[1].action = <<"list-windows">>
    /\ Len(sh[1].calls) = 3 /\ Head(sh[1].calls[3].argv) = <<"list-windows">>

\* C17: a send-keys request without a target field ends with status 1 and
\* no key-send call; no element of args is used as a target.
C17_SendKeysWithoutTargetRejected ==
    (TmuxRequestRead(1, "send-keys") /\ sh[1].req.target = << >>)
    => /\ \A i \in DOMAIN sh[1].calls : Head(sh[1].calls[i].argv) # <<"send-keys">>
       /\ sh[1].pc = "done" => sh[1].exit = 1

\* process p's ensure step created the session
CreatedSession(p) ==
    /\ ~sh[p].existed /\ Len(sh[p].calls) >= 2
    /\ IsCreate(sh[p].calls[2]) /\ sh[p].calls[2].rc = 0

\* C18: with two invocations at once in one working directory, the session
\* named after it is created at most once, and every invocation issues the
\* calls of its own action only when that session exists.  (Sessions are
\* never removed, so the session existing after a call is the session
\* existing when the call was issued.)
C18_ConcurrentEnsureIsSafe ==
    /\ Cardinality({p \in Procs : CreatedSession(p)}) <= 1
    /\ \A p \in Procs : CreatedSession(p) => session_name(cwd) \in sessions
    /\ \A p \in Procs : OwnCalls(p) # << >> => session_name(cwd) \in sessions

\* the window process p's run-shell made, and the pane its command went to
WindowMadeBy(p) == IF OwnCalls(p) = << >> THEN << >> ELSE OwnCalls(p)[1].out
PaneOf(p) == IF Len(OwnCalls(p)) < 2 THEN << >> ELSE OwnCalls(p)[2].pane

\* C19: with two run-shell invocations at once on one session, whenever the
\* server has delivered an invocation's command, it delivered it to the
\* window that same invocation created, and never to the window the other
\* invocation created.
C19_CommandGoesToOwnWindow ==
    (\A p \in Procs : sh[p].action = <<"run-shell">>)
    => \A p, q \in Procs :
         PaneOf(p) # << >> =>
           /\ PaneOf(p) = WindowMadeBy(p)
           /\ p # q => PaneOf(p) # WindowMadeBy(q)

\* the chunks that arrived on one stream, in order, put together
RECURSIVE Received(_, _)
Received(events, stream) ==
    IF events = << >> THEN << >>
    ELSE (IF Head(events).stream = stream THEN Head(events).data ELSE << >>)
         \o Received(Tail(events), stream)

\* C20, on states: a line of the subprocess's output is printed only once
\* the subprocess has closed, and what is printed of a stream is all the
\* chunks that arrived on it, in the order of arrival.
C20_RelayedAfterCloseAndInFull ==
    tool = "permissions" =>
      \A i \in DOMAIN printed :
        printed[i].kind \in {"stdout", "stderr"} =>
          /\ childState = "closed"
          /\ printed[i].text = Received(arrived, printed[i].kind)

\* C20, on steps: a promise that is resolved or rejected never changes again
C20_SettledAtMostOnce ==
    promise.state \in {"resolved", "rejected"} => promise' = promise

\* C20: nothing of the subprocess's output is printed before its close
\* event, the relayed stdout and stderr are the concatenation of every chunk
\* received on the stream in arrival order, and the result promise is
\* settled at most once.
C20_CapturedInFullThenRelayed ==
    [](C20_RelayedAfterCloseAndInFull) /\ [][C20_SettledAtMostOnce]_vars

\* C20 witness: two different chunks arrived on standard output, one after
\* the other, and were relayed as one text after the close event
C20_Witness ==
    /\ tool = "permissions" /\ permPc = "exited" /\ childState = "closed"
    /\ Len(arrived) = 2 /\ arrived[1].stream = "stdout" /\ arrived[2].stream = "stdout"
    /\ arrived[1].data # arrived[2].data
    /\ \E i \in DOMAIN printed :
         printed[i] = Log("stdout", arrived[1].data \o arrived[2].data)

====
